---- MODULE Spec2Model ----
(***************************************************************************)
(* Flatmate Finder: the conversation / message store and the realtime      *)
(* fan-out of server.js (src/unnamed/part_001), as a state machine.        *)
(*                                                                         *)
(* Every HTTP handler is cut at its awaits: one action per database        *)
(* operation together with the synchronous code that follows it up to the  *)
(* next await.  Requests of different sessions interleave at these points. *)
(***************************************************************************)
EXTENDS Integers, Sequences, FiniteSets

\* ------------------------------------------------------------------ bounds
MaxConversations == 2
MaxMessages == 2
MaxClock == 1

\* ------------------------------------------------------- program constants
PreviewLen == 100
NoUser == 0
Null == -1

\* --------------------------------------------------------------- universes
Users == {1, 2, 3}
Sessions == {1, 2}
Sockets == {1, 2}

VARIABLES
    session,        \* session id -> req.session.userId (NoUser when not logged in)
    conversations,  \* the Conversation collection, in insertion order
    messages,       \* the Message collection, in insertion order
    req,            \* session id -> the request of that session that is in flight
    resp,           \* the response sent last
    now,            \* the server clock (Date.now)
    socks,          \* socket id -> "new" | "open" | "closed"
    rooms,          \* socket id -> the set of room names the socket has joined
    inbox,          \* socket id -> the 'new-message' events received, in order
    ackd,           \* history: the messages that were stored when a list-messages call of their receiver completed
    requirements,   \* the Requirement collection (the listings), in insertion order
    savedPosts,     \* the SavedPost collection, in insertion order
    cloud,          \* the images stored at Cloudinary
    posted,         \* the number of Requirement documents constructed so far
    uploaded,       \* the number of images uploaded so far
    users,          \* user id -> the User document
    userName,       \* session id -> the userName of the stored session, Null when there is none
    otps            \* the OTP collection, in insertion order

chatVars == <<conversations, messages, socks, rooms, inbox, ackd>>
postVars == <<requirements, savedPosts, cloud, posted, uploaded>>
userVars == <<users, otps>>

vars == <<session, conversations, messages, req, resp, now, socks, rooms, inbox, ackd,
          requirements, savedPosts, cloud, posted, uploaded, users, userName, otps>>

\* ---------------------------------------------------------- ids and strings
\* An id as it travels in a request: a 24-digit hex string in lower or upper
\* case, a string that is no ObjectId, or nothing at all.
Hex(i, up) == [kind |-> "hex", id |-> i, upper |-> up]
Invalid == [kind |-> "invalid", id |-> Null, upper |-> FALSE]
Absent == [kind |-> "absent", id |-> Null, upper |-> FALSE]

\* ObjectId.prototype.toString(): lower-case hex.
toString(oid) == Hex(oid, FALSE)

\* Mongoose's cast of a request value to ObjectId: hex digits of either case
\* give the same id, undefined is left alone, anything else is a CastError.
CastFails(t) == t.kind = "invalid"
CastObjectId(t) == IF t.kind = "hex" THEN t.id ELSE Null

\* The _id of the k-th document inserted into the Conversation collection.
ConvOid(k) == 10 + k
ConvIndex(oid) == oid - 10

\* A string, as the character it repeats and its length; '' has length 0.
Str(c, n) == [ch |-> IF n = 0 THEN "" ELSE c, len |-> n]
EmptyStr == Str("", 0)

Min(a, b) == IF a < b THEN a ELSE b

\* String.prototype.substring(0, n)
SubstringNoCut(s, n) == s
Substring(s, n) == Str(s.ch, Min(s.len, n))

\* ------------------------------------------------------------ request slots
\* A request body's `message`: a string, a JSON number, or nothing.
StrBody(s) == [kind |-> "str", str |-> s]
NumBody == [kind |-> "num", str |-> Str("7", 1)]
NoBody == [kind |-> "absent", str |-> EmptyStr]

\* A query or form value that is not present.
NoText == [kind |-> "absent"]

\* The body of a request that carries none.
NoForm == [kind |-> "none"]

IdleReq ==
    [pc |-> "idle", userId |-> NoUser, conv |-> Absent, other |-> Absent,
     body |-> NoBody, time |-> 0, msg |-> 0, result |-> {}, solo |-> FALSE,
     post |-> Absent, images |-> {}, form |-> NoForm, otp |-> NoText, name |-> Null]

\* The response sent last: its status and, from create-or-get, the conversation
\* returned, whether it was created, and the pair it was asked for; from
\* save-post the alreadySaved flag; from a search the query it answers, the
\* page of listings and the pagination envelope.
NoResp ==
    [status |-> 0, cid |-> Null, created |-> FALSE, pair |-> {},
     success |-> FALSE, alreadySaved |-> FALSE, loggedIn |-> FALSE,
     query |-> NoForm, data |-> <<>>, pagination |-> NoForm]

\* res.status(st).json(...) of handler o.
Reply(o, st) == [NoResp EXCEPT !.status = st]

\* requireAuth
AuthSkipped(s) == TRUE
RequireAuth(s) == session[s] # NoUser

\* ------------------------------------------------------------------ clock
\* Time passes; Date.now() and new Date() read `now`.
Tick ==
    /\ now < MaxClock
    /\ now' = now + 1
    /\ UNCHANGED <<session, userName, conversations, messages, req, resp, socks, rooms, inbox, ackd>>
    /\ UNCHANGED <<postVars, userVars>>

\* ------------------------------------------------------------ login/logout
\* POST /login with the credentials of registered user u.
Login(s, u) ==
    /\ session' = [session EXCEPT ![s] = u]
    /\ userName' = [userName EXCEPT ![s] = users[u].profile]
    /\ UNCHANGED <<conversations, messages, req, resp, now, socks, rooms, inbox, ackd>>
    /\ UNCHANGED <<postVars, userVars>>

\* POST /logout: req.session.destroy.
Logout(s) ==
    /\ session[s] # NoUser
    /\ session' = [session EXCEPT ![s] = NoUser]
    /\ userName' = [userName EXCEPT ![s] = Null]
    /\ UNCHANGED <<conversations, messages, req, resp, now, socks, rooms, inbox, ackd>>
    /\ UNCHANGED <<postVars, userVars>>

\* ------------------------------------------------- POST /api/conversations
SetOf(seq) == {seq[i] : i \in 1..Len(seq)}

\* The documents of the collection that match {participants: {$all: ids}}.
MatchAll(ids) ==
    {c \in 1..Len(conversations) : ids \subseteq SetOf(conversations[c].participants)}

\* Conversation.findOne({participants: {$all: [a, b]}}): the first match in
\* insertion order, Null when there is none.
FindOneAll(a, b) ==
    LET M == MatchAll({a, b})
    IN  IF M = {} THEN Null ELSE CHOOSE c \in M : \A d \in M : c <= d

\* Conversation documents constructed and not yet saved.
PendingConversations == {s \in Sessions : req[s].pc = "conv_save"}

\* new Conversation({participants: [a, b]}): the defaults read the clock.
NewConversation(a, b, t) ==
    [participants |-> <<a, b>>, lastMessage |-> EmptyStr, lastMessageTime |-> t]

\* The handler up to `await Conversation.findOne(...)` and what follows the
\* answer: the response when a conversation is found, else the construction
\* of a new document up to `await conversation.save()`.
ConvStart(s, otherUserId) ==
    /\ req[s].pc = "idle"
    /\ UNCHANGED <<session, userName, conversations, messages, now, socks, rooms, inbox, ackd>>
    /\ UNCHANGED <<postVars, userVars>>
    /\ IF ~RequireAuth(s)
       THEN /\ resp' = Reply("conv", 401)
            /\ UNCHANGED req
       ELSE LET userId == session[s] IN
            IF toString(userId) = otherUserId
            THEN /\ resp' = Reply("conv", 400)
                 /\ UNCHANGED req
            ELSE IF CastFails(otherUserId)
            THEN /\ resp' = Reply("conv", 500)
                 /\ UNCHANGED req
            ELSE LET o == CastObjectId(otherUserId)
                     found == FindOneAll(userId, o)
                 IN  IF found # Null
                     THEN /\ resp' = [Reply("conv", 200) EXCEPT
                                         !.cid = ConvOid(found), !.pair = {userId, o}]
                          /\ UNCHANGED req
                     ELSE /\ Len(conversations) + Cardinality(PendingConversations)
                                < MaxConversations
                          /\ req' = [req EXCEPT ![s] =
                                [IdleReq EXCEPT !.pc = "conv_save", !.userId = userId,
                                   !.other = otherUserId, !.time = now]]
                          /\ UNCHANGED resp

\* `await conversation.save()` and the response.  The schema requires every
\* element of participants, so an undefined otherUserId fails validation.
ConvSave(s) ==
    /\ req[s].pc = "conv_save"
    /\ req' = [req EXCEPT ![s] = IdleReq]
    /\ UNCHANGED <<session, userName, messages, now, socks, rooms, inbox, ackd>>
    /\ UNCHANGED <<postVars, userVars>>
    /\ IF req[s].other.kind = "absent"
       THEN /\ resp' = Reply("conv", 500)
            /\ UNCHANGED conversations
       ELSE LET userId == req[s].userId
                o == CastObjectId(req[s].other)
            IN  /\ conversations' = Append(conversations,
                                           NewConversation(userId, o, req[s].time))
                /\ resp' = [Reply("conv", 200) EXCEPT
                               !.cid = ConvOid(Len(conversations) + 1),
                               !.created = TRUE, !.pair = {userId, o}]

\* The values a request can carry where it names a user.
UserTexts ==
    {Hex(u, up) : u \in Users, up \in BOOLEAN} \cup {Invalid, Absent}

\* ----------------------------------------- GET /api/messages/:conversationId
\* The values a request can carry where it names a conversation: the ids of
\* the stored conversations and of one that is not stored, in either case of
\* hex digits, a string that is no ObjectId, and (in a JSON body) nothing.
ConvTexts ==
    {Hex(ConvOid(k), FALSE) : k \in 1..(MaxConversations + 1)}
        \cup {Hex(ConvOid(1), TRUE), Invalid, Absent}

\* Conversation.findOne({_id: c, participants: userId}) finds a document.
IsParticipant(c, userId) ==
    /\ ConvIndex(c) \in 1..Len(conversations)
    /\ userId \in SetOf(conversations[ConvIndex(c)].participants)

\* Message.find({conversationId: c}): the documents with their read flags.
FindMessages(c) ==
    {[m |-> i, read |-> messages[i].read] :
        i \in {j \in 1..Len(messages) : messages[j].conversationId = c}}

\* Message.updateMany({conversationId: c, receiverId: userId, read: false},
\*                    {read: true})
UpdateManyNoReceiver(c, userId) ==
    [i \in 1..Len(messages) |->
        IF messages[i].conversationId = c /\ ~messages[i].read
        THEN [messages[i] EXCEPT !.read = TRUE]
        ELSE messages[i]]
UpdateManyNothing(c, userId) == messages
UpdateManySender(c, userId) ==
    [i \in 1..Len(messages) |->
        IF /\ messages[i].conversationId = c
           /\ messages[i].senderId = userId
           /\ ~messages[i].read
        THEN [messages[i] EXCEPT !.read = TRUE]
        ELSE messages[i]]
UpdateMany(c, userId) ==
    [i \in 1..Len(messages) |->
        IF /\ messages[i].conversationId = c
           /\ messages[i].receiverId = userId
           /\ ~messages[i].read
        THEN [messages[i] EXCEPT !.read = TRUE]
        ELSE messages[i]]

\* requireAuth and `await Conversation.findOne(...)`: 401, 500 on a cast
\* error, 403 when no conversation with this participant is found.
ListStart(s, conversationId) ==
    /\ req[s].pc = "idle"
    /\ conversationId.kind # "absent"
    /\ UNCHANGED <<session, userName, conversations, messages, now, socks, rooms, inbox, ackd>>
    /\ UNCHANGED <<postVars, userVars>>
    /\ IF ~RequireAuth(s)
       THEN /\ resp' = Reply("list", 401)
            /\ UNCHANGED req
       ELSE IF CastFails(conversationId)
       THEN /\ resp' = Reply("list", 500)
            /\ UNCHANGED req
       ELSE IF ~IsParticipant(CastObjectId(conversationId), session[s])
       THEN /\ resp' = Reply("list", 403)
            /\ UNCHANGED req
       ELSE /\ req' = [req EXCEPT ![s] =
                  [IdleReq EXCEPT !.pc = "list_find", !.userId = session[s],
                     !.conv = conversationId]]
            /\ UNCHANGED resp

\* `await Message.find({conversationId})...`
ListFind(s) ==
    /\ req[s].pc = "list_find"
    /\ req' = [req EXCEPT ![s].pc = "list_mark",
                          ![s].result = FindMessages(CastObjectId(req[s].conv))]
    /\ UNCHANGED <<session, userName, conversations, messages, resp, now, socks, rooms, inbox, ackd>>
    /\ UNCHANGED <<postVars, userVars>>

\* `await Message.updateMany(...)` and the response with the messages found.
ListMark(s) ==
    /\ req[s].pc = "list_mark"
    /\ LET c == CastObjectId(req[s].conv)
           userId == req[s].userId
       IN  /\ messages' = UpdateMany(c, userId)
           /\ ackd' = ackd \cup
                 {i \in 1..Len(messages) :
                     messages[i].conversationId = c /\ messages[i].receiverId = userId}
    /\ resp' = Reply("list", 200)
    /\ req' = [req EXCEPT ![s] = IdleReq]
    /\ UNCHANGED <<session, userName, conversations, now, socks, rooms, inbox>>
    /\ UNCHANGED <<postVars, userVars>>

\* ------------------------------------------------------ POST /api/messages
\* The values a request can carry as receiverId.
ReceiverTexts == {Hex(1, FALSE), Hex(2, FALSE), Invalid, Absent}

\* The values a request can carry as message.
Bodies ==
    {StrBody(Str("a", 1)), StrBody(Str("a", PreviewLen + 1)), StrBody(EmptyStr),
     NoBody}

ShortBodies == {StrBody(Str("a", 1)), NoBody}

SendsInFlight == {s \in Sessions : req[s].pc \in {"msg_save", "msg_update", "msg_emit"}}

\* Message documents constructed and not yet saved.
PendingMessages == {s \in Sessions : req[s].pc = "msg_save"}

\* requireAuth, `await Conversation.findOne(...)`, and on a match the
\* construction of the Message (createdAt defaults to the clock) up to
\* `await newMessage.save()`.
SendStart(s, conversationId, receiverId, message) ==
    /\ req[s].pc = "idle"
    /\ UNCHANGED <<session, userName, conversations, messages, now, socks, rooms, inbox, ackd>>
    /\ UNCHANGED <<postVars, userVars>>
    /\ IF ~RequireAuth(s)
       THEN /\ resp' = Reply("send", 401)
            /\ UNCHANGED req
       ELSE IF CastFails(conversationId)
       THEN /\ resp' = Reply("send", 500)
            /\ UNCHANGED req
       ELSE IF ~IsParticipant(CastObjectId(conversationId), session[s])
       THEN /\ resp' = Reply("send", 403)
            /\ UNCHANGED req
       ELSE /\ Len(messages) + Cardinality(PendingMessages) < MaxMessages
            /\ req' = [t \in Sessions |->
                  IF t = s
                  THEN [IdleReq EXCEPT !.pc = "msg_save", !.userId = session[s],
                          !.conv = conversationId, !.other = receiverId,
                          !.body = message, !.time = now,
                          !.solo = (SendsInFlight = {})]
                  ELSE IF t \in SendsInFlight
                  THEN [req[t] EXCEPT !.solo = FALSE]
                  ELSE req[t]]
            /\ UNCHANGED resp

\* The document passes validation: receiverId and message are required, and
\* receiverId must cast to an ObjectId.
Valid(receiverId, message) ==
    /\ receiverId.kind = "hex"
    /\ message.kind # "absent"
    /\ message.str.len > 0

\* `await newMessage.save()`, then message.substring(0, 100) and new Date()
\* up to `await Conversation.findByIdAndUpdate(...)`.  A message that is not a
\* string is stored as its text, and has no substring method.
SendSave(s) ==
    /\ req[s].pc = "msg_save"
    /\ UNCHANGED <<session, userName, conversations, now, socks, rooms, inbox, ackd>>
    /\ UNCHANGED <<postVars, userVars>>
    /\ IF ~Valid(req[s].other, req[s].body)
       THEN /\ resp' = Reply("send", 500)
            /\ req' = [req EXCEPT ![s] = IdleReq]
            /\ UNCHANGED messages
       ELSE /\ messages' = Append(messages,
                  [conversationId |-> CastObjectId(req[s].conv),
                   senderId |-> req[s].userId,
                   receiverId |-> CastObjectId(req[s].other),
                   message |-> req[s].body.str,
                   read |-> FALSE,
                   createdAt |-> req[s].time])
            /\ IF req[s].body.kind # "str"
               THEN /\ resp' = Reply("send", 500)
                    /\ req' = [req EXCEPT ![s] = IdleReq]
               ELSE /\ req' = [req EXCEPT ![s].pc = "msg_update",
                                          ![s].msg = Len(messages) + 1,
                                          ![s].time = now]
                    /\ UNCHANGED resp

\* Conversation.findByIdAndUpdate(c, {lastMessage, lastMessageTime})
UpdateSummary(c, preview, t) ==
    [conversations EXCEPT ![ConvIndex(c)].lastMessage = preview,
                          ![ConvIndex(c)].lastMessageTime = t]

\* `await Conversation.findByIdAndUpdate(...)`; the two populate calls that
\* follow only read the User collection.
SendUpdate(s) ==
    /\ req[s].pc = "msg_update"
    /\ conversations' = UpdateSummary(CastObjectId(req[s].conv),
                                      Substring(req[s].body.str, PreviewLen),
                                      req[s].time)
    /\ req' = [req EXCEPT ![s].pc = "msg_emit"]
    /\ UNCHANGED <<session, userName, messages, resp, now, socks, rooms, inbox, ackd>>
    /\ UNCHANGED <<postVars, userVars>>

\* io.to(room).emit('new-message', m): every connected socket in the room.
EmitUnsaved(room, m) ==
    [k \in Sockets |->
        IF socks[k] = "open" /\ room \in rooms[k]
        THEN Append(inbox[k], Len(messages) + 1)
        ELSE inbox[k]]
EmitTwice(room, m) ==
    [k \in Sockets |->
        IF socks[k] = "open" /\ room \in rooms[k]
        THEN Append(Append(inbox[k], m), m)
        ELSE inbox[k]]
Emit(room, m) ==
    [k \in Sockets |->
        IF socks[k] = "open" /\ room \in rooms[k]
        THEN Append(inbox[k], m)
        ELSE inbox[k]]

\* After the populates: io.to(conversationId).emit(...) with the id as the
\* request wrote it, and the response.
SendEmit(s) ==
    /\ req[s].pc = "msg_emit"
    /\ inbox' = Emit(req[s].conv, req[s].msg)
    /\ resp' = Reply("send", 200)
    /\ req' = [req EXCEPT ![s] = IdleReq]
    /\ UNCHANGED <<session, userName, conversations, messages, now, socks, rooms, ackd>>
    /\ UNCHANGED <<postVars, userVars>>

\* ----------------------------------------------------------- socket.io
\* The room names a client sends with join-conversation.
RoomTexts == {Hex(ConvOid(1), up) : up \in BOOLEAN}

\* The user whose browser opened socket k: user 1 for socket 1, user 3 for
\* socket 2.  The connection handler reads nothing of the handshake, so the
\* server keeps no such record.
SocketUser(k) == IF k = 1 THEN 1 ELSE 3

\* io.on('connection')
Connect(k) ==
    /\ socks[k] = "new"
    /\ socks' = [socks EXCEPT ![k] = "open"]
    /\ UNCHANGED <<session, userName, conversations, messages, req, resp, now, rooms, inbox, ackd>>
    /\ UNCHANGED <<postVars, userVars>>

\* socket.on('join-conversation'): socket.join(conversationId)
Join(k, conversationId) ==
    /\ socks[k] = "open"
    /\ rooms' = [rooms EXCEPT ![k] = @ \cup {conversationId}]
    /\ UNCHANGED <<session, userName, conversations, messages, req, resp, now, socks, inbox, ackd>>
    /\ UNCHANGED <<postVars, userVars>>

\* socket.on('leave-conversation'): socket.leave(conversationId)
Leave(k, conversationId) ==
    /\ socks[k] = "open"
    /\ conversationId \in rooms[k]
    /\ rooms' = [rooms EXCEPT ![k] = @ \ {conversationId}]
    /\ UNCHANGED <<session, userName, conversations, messages, req, resp, now, socks, inbox, ackd>>
    /\ UNCHANGED <<postVars, userVars>>

\* socket.on('disconnect'): socket.io has taken the socket out of its rooms.
Disconnect(k) ==
    /\ socks[k] = "open"
    /\ socks' = [socks EXCEPT ![k] = "closed"]
    /\ rooms' = [rooms EXCEPT ![k] = {}]
    /\ UNCHANGED <<session, userName, conversations, messages, req, resp, now, inbox, ackd>>
    /\ UNCHANGED <<postVars, userVars>>

\* ------------------------------------------------------------- JS numbers
\* A number: an integer, NaN or Infinity.
Num(n) == [k |-> "num", v |-> n]
NaN == [k |-> "nan", v |-> 0]
Infinity == [k |-> "inf", v |-> 0]

\* A form or query value as text: decimal digits (with a sign), or a text
\* that does not start with a number.
IntText(n) == [kind |-> "int", v |-> n]
Junk == [kind |-> "junk"]

\* Number(x) of a form value: NaN for undefined and for a text that is no number.
NumberOf(x) == IF x.kind = "int" THEN Num(x.v) ELSE NaN

\* parseInt(x): NaN unless the text starts with an integer.
ParseInt(x) == IF x.kind = "int" THEN Num(x.v) ELSE NaN

\* --------------------------------------------------------------- listings
\* The _id of the k-th Requirement document constructed.
PostOid(k) == 20 + k

\* The request body of post-requirement number k: some values to tell the
\* listings apart.
SampleForm(k) ==
    [kind |-> "form",
     price |-> IntText(IF k <= 2 THEN 10 ELSE 10 * (k - 1)),
     furnishing |-> IF k % 2 = 1 THEN "Furnished" ELSE "Unfurnished",
     state |-> IF k % 2 = 1 THEN <<"K", "a">> ELSE <<"g">>,
     city |-> IF k % 3 = 0 THEN <<"a", "k">> ELSE <<"g", "a">>,
     location |-> <<"z">>,
     prefs |-> IF k % 2 = 1 THEN <<(<<"P">>), (<<"g", "k">>)>> ELSE <<>>,
     gender |-> IF k <= 2 THEN "Male" ELSE "Female"]

\* The same body with a price that is no number.
JunkPriceForm == [SampleForm(1) EXCEPT !.price = Junk]

\* new Requirement({userId, images, price: Number(price), ...}) with its
\* generated _id and the createdAt default.
NewRequirement(id, userId, images, form, t) ==
    [_id |-> id, userId |-> userId, images |-> images,
     price |-> NumberOf(form.price),
     furnishing |-> form.furnishing, state |-> form.state, city |-> form.city,
     location |-> form.location, prefs |-> form.prefs, gender |-> form.gender,
     createdAt |-> t]

\* The sequence without its i-th element.
Remove(seq, i) ==
    [j \in 1..(Len(seq) - 1) |-> IF j < i THEN seq[j] ELSE seq[j + 1]]

\* The positions of the Requirement documents with this _id.
FindPost(id) == {i \in 1..Len(requirements) : requirements[i]._id = id}

\* The positions of the Requirement documents with this _id and this owner.
FindOwnedAny(id, userId) == FindPost(id)
FindOwned(id, userId) ==
    {i \in FindPost(id) : requirements[i].userId = userId}

\* The values a request can carry where it names a listing: the ids of the
\* listings constructed so far and of one that was not, in either case of hex
\* digits, and a string that is no ObjectId.
PostTexts ==
    {Hex(PostOid(k), FALSE) : k \in 1..3} \cup {Hex(PostOid(1), TRUE), Invalid}

\* ---------------------------------------------- POST /api/post-requirement
MaxPosts == 3

\* The numbers of files a post-requirement request carries (at most 3).
ImageCounts == {0, 2}

\* requireAuth, then the upload middleware starts sending the files to
\* Cloudinary.
CreateStart(s, n, form) ==
    /\ req[s].pc = "idle"
    /\ UNCHANGED <<session, userName, now, chatVars, postVars, userVars>>
    /\ IF ~RequireAuth(s)
       THEN /\ resp' = Reply("create", 401)
            /\ UNCHANGED req
       ELSE /\ posted < MaxPosts
            /\ req' = [req EXCEPT ![s] =
                  [IdleReq EXCEPT !.pc = "post_upload", !.userId = session[s],
                     !.msg = n, !.form = form]]
            /\ UNCHANGED resp

\* The upload has ended.  When it failed the request ends with an error; else
\* the handler constructs the document with the URLs of the stored images up
\* to `await post.save()`.
CreateUpload(s, ok) ==
    /\ req[s].pc = "post_upload"
    /\ UNCHANGED <<session, userName, now, chatVars, userVars, requirements, savedPosts>>
    /\ IF ~ok
       THEN /\ resp' = Reply("create", 500)
            /\ req' = [req EXCEPT ![s] = IdleReq]
            /\ UNCHANGED <<cloud, posted, uploaded>>
       ELSE LET images == (uploaded + 1)..(uploaded + req[s].msg)
            IN  /\ cloud' = cloud \cup images
                /\ uploaded' = uploaded + req[s].msg
                /\ posted' = posted + 1
                /\ req' = [req EXCEPT ![s].pc = "post_save",
                                      ![s].post = Hex(PostOid(posted + 1), FALSE),
                                      ![s].images = images,
                                      ![s].msg = 0,
                                      ![s].time = now]
                /\ UNCHANGED resp

\* `await post.save()` and the response.  A price that is NaN fails the cast
\* to Number and nothing is stored.
CreateSave(s) ==
    /\ req[s].pc = "post_save"
    /\ req' = [req EXCEPT ![s] = IdleReq]
    /\ UNCHANGED <<session, userName, now, chatVars, userVars, savedPosts, cloud, posted, uploaded>>
    /\ IF NumberOf(req[s].form.price) = NaN
       THEN /\ resp' = Reply("create", 500)
            /\ UNCHANGED requirements
       ELSE /\ requirements' = Append(requirements,
                  NewRequirement(CastObjectId(req[s].post), req[s].userId,
                                 req[s].images, req[s].form, req[s].time))
            /\ resp' = Reply("create", 201)

\* ------------------------------------------------------ GET /api/my-posts
\* The positions of the Requirement documents of this owner.
FindByAnyOwner(userId) == 1..Len(requirements)
FindByOwner(userId) == {i \in 1..Len(requirements) : requirements[i].userId = userId}

\* The query of a my-posts request: whose listings it asks for.
Mine(userId) == [kind |-> "mine", userId |-> userId]

\* ------------------------------------------- DELETE /api/my-posts/:postId
\* requireAuth and `await Requirement.findOne({_id, userId})`: 403 when the
\* user owns no such listing; else the destroy calls for its images are
\* started, or with no image the deleteOne.
DelStart(s, postId) ==
    /\ req[s].pc = "idle"
    /\ UNCHANGED <<session, userName, now, chatVars, postVars, userVars>>
    /\ IF ~RequireAuth(s)
       THEN /\ resp' = Reply("delete", 401)
            /\ UNCHANGED req
       ELSE IF CastFails(postId)
       THEN /\ resp' = Reply("delete", 500)
            /\ UNCHANGED req
       ELSE LET found == FindOwned(CastObjectId(postId), session[s]) IN
            IF found = {}
            THEN /\ resp' = Reply("delete", 403)
                 /\ UNCHANGED req
            ELSE LET post == requirements[CHOOSE i \in found : TRUE] IN
                 /\ req' = [req EXCEPT ![s] =
                       [IdleReq EXCEPT
                          !.pc = IF post.images = {} THEN "del_row" ELSE "del_images",
                          !.userId = session[s], !.post = postId,
                          !.images = post.images]]
                 /\ UNCHANGED resp

\* `await Promise.all(deletePromises)`: every destroy call has been sent; the
\* calls for the images in `failed` end with an error and the others remove
\* their image.  One rejection rejects the whole and the catch answers 500.
DelImages(s, failed) ==
    /\ req[s].pc = "del_images"
    /\ failed \subseteq req[s].images
    /\ cloud' = cloud \ (req[s].images \ failed)
    /\ UNCHANGED <<session, userName, now, chatVars, userVars, requirements, savedPosts, posted, uploaded>>
    /\ IF failed # {}
       THEN /\ resp' = Reply("delete", 500)
            /\ req' = [req EXCEPT ![s] = IdleReq]
       ELSE /\ req' = [req EXCEPT ![s].pc = "del_row"]
            /\ UNCHANGED resp

\* Requirement.deleteOne({_id, userId}): the collection without the first match.
DeleteOne(id, userId) ==
    LET found == FindOwned(id, userId)
    IN  IF found = {} THEN requirements
        ELSE Remove(requirements, CHOOSE i \in found : \A j \in found : i <= j)

\* `await Requirement.deleteOne({_id, userId})` and the response.
DelRow(s) ==
    /\ req[s].pc = "del_row"
    /\ requirements' = DeleteOne(CastObjectId(req[s].post), req[s].userId)
    /\ resp' = Reply("delete", 200)
    /\ req' = [req EXCEPT ![s] = IdleReq]
    /\ UNCHANGED <<session, userName, now, chatVars, userVars, savedPosts, cloud, posted, uploaded>>

\* --------------------------------------------- POST /api/save-post/:postId
\* The positions of the SavedPost documents of this user and listing.
SavedRows(userId, postId) ==
    {i \in 1..Len(savedPosts) :
        savedPosts[i].userId = userId /\ savedPosts[i].postId = postId}

\* requireAuth and `await Requirement.findById(postId)`: 404 when there is no
\* such listing.
SaveStart(s, postId) ==
    /\ req[s].pc = "idle"
    /\ UNCHANGED <<session, userName, now, chatVars, postVars, userVars>>
    /\ IF ~RequireAuth(s)
       THEN /\ resp' = Reply("save", 401)
            /\ UNCHANGED req
       ELSE IF CastFails(postId)
       THEN /\ resp' = Reply("save", 500)
            /\ UNCHANGED req
       ELSE IF FindPost(CastObjectId(postId)) = {}
       THEN /\ resp' = Reply("save", 404)
            /\ UNCHANGED req
       ELSE /\ req' = [req EXCEPT ![s] =
                  [IdleReq EXCEPT !.pc = "save_find", !.userId = session[s],
                     !.post = postId]]
            /\ UNCHANGED resp

\* `await SavedPost.findOne({userId, postId})`: the answer 'already saved'
\* when a document is found, else the construction of a new one up to
\* `await savedPost.save()`.
FindSavedNever(userId, postId) == FALSE
FindSaved(userId, postId) == SavedRows(userId, postId) # {}

SaveFind(s) ==
    /\ req[s].pc = "save_find"
    /\ UNCHANGED <<session, userName, now, chatVars, postVars, userVars>>
    /\ IF FindSaved(req[s].userId, CastObjectId(req[s].post))
       THEN /\ resp' = [Reply("save", 200) EXCEPT !.success = TRUE,
                                                   !.alreadySaved = TRUE]
            /\ req' = [req EXCEPT ![s] = IdleReq]
       ELSE /\ req' = [req EXCEPT ![s].pc = "save_insert"]
            /\ UNCHANGED resp

\* The unique index on {userId, postId} rejects the insert (E11000).
NoUniqueIndex(userId, postId) == FALSE
DuplicateKey(userId, postId) == SavedRows(userId, postId) # {}

\* `await savedPost.save()` and the response; a rejected insert is answered 500.
SaveInsert(s) ==
    /\ req[s].pc = "save_insert"
    /\ req' = [req EXCEPT ![s] = IdleReq]
    /\ UNCHANGED <<session, userName, now, chatVars, userVars, requirements, cloud, posted, uploaded>>
    /\ LET userId == req[s].userId
           postId == CastObjectId(req[s].post)
       IN  IF DuplicateKey(userId, postId)
           THEN /\ resp' = Reply("save", 500)
                /\ UNCHANGED savedPosts
           ELSE /\ savedPosts' = Append(savedPosts, [userId |-> userId, postId |-> postId])
                /\ resp' = [Reply("save", 200) EXCEPT !.success = TRUE]

\* ------------------------------------------- DELETE /api/save-post/:postId
\* SavedPost.findOneAndDelete({userId, postId}): the collection without the
\* first match.
FindOneAndDelete(userId, postId) ==
    LET found == SavedRows(userId, postId)
    IN  IF found = {} THEN savedPosts
        ELSE Remove(savedPosts, CHOOSE i \in found : \A j \in found : i <= j)

\* requireAuth, `await SavedPost.findOneAndDelete(...)` and the response.
Unsave(s, postId) ==
    /\ req[s].pc = "idle"
    /\ UNCHANGED <<session, userName, req, now, chatVars, userVars, requirements, cloud, posted, uploaded>>
    /\ IF ~RequireAuth(s)
       THEN /\ resp' = Reply("unsave", 401)
            /\ UNCHANGED savedPosts
       ELSE IF CastFails(postId)
       THEN /\ resp' = Reply("unsave", 500)
            /\ UNCHANGED savedPosts
       ELSE /\ savedPosts' = FindOneAndDelete(session[s], CastObjectId(postId))
            /\ resp' = [Reply("unsave", 200) EXCEPT !.success = TRUE]

\* ------------------------------------------------------- PUT /api/profile
\* A profile body: its five text fields are all present with some text
\* ("full"), or one is missing or empty ("missing"), or fullname is only
\* white space ("blank"); and its age.
ProfileForm(fields, age) == [kind |-> "profile", fields |-> fields, age |-> age]

ProfileForms ==
    {ProfileForm(f, a) : f \in {"full", "missing", "blank"},
                         a \in {IntText(30), IntText(17), Junk}}

MinAge == 18
MaxAge == 100

\* requireAuth and the checks of the body up to
\* `await User.findByIdAndUpdate(...)`.
ProfileStart(s, form) ==
    /\ req[s].pc = "idle"
    /\ UNCHANGED <<session, userName, now, chatVars, postVars, userVars>>
    /\ IF ~RequireAuth(s)
       THEN /\ resp' = Reply("profile", 401)
            /\ UNCHANGED req
       ELSE IF form.fields = "missing" \/ form.age.kind = "absent"
       THEN /\ resp' = Reply("profile", 400)
            /\ UNCHANGED req
       ELSE LET ageNum == ParseInt(form.age) IN
            IF ageNum = NaN \/ ageNum.v < MinAge \/ ageNum.v > MaxAge
            THEN /\ resp' = Reply("profile", 400)
                 /\ UNCHANGED req
            ELSE /\ req' = [req EXCEPT ![s] =
                       [IdleReq EXCEPT !.pc = "profile_update",
                          !.userId = session[s], !.name = userName[s],
                          !.form = form]]
                 /\ UNCHANGED resp

\* The fullname a profile form carries (the registered one is 0).
FormName == 1

\* `await User.findByIdAndUpdate(..., {runValidators: true})` and the
\* response: a fullname trimmed to '' fails the required validator.  The
\* handler writes the new fullname to its req.session when it differs, and
\* the session middleware (resave: false) stores a request's session at the
\* end of the response when the request has changed it.
ProfileUpdate(s) ==
    /\ req[s].pc = "profile_update"
    /\ req' = [req EXCEPT ![s] = IdleReq]
    /\ UNCHANGED <<now, chatVars, postVars, otps>>
    /\ IF req[s].form.fields = "blank"
       THEN /\ resp' = Reply("profile", 500)
            /\ UNCHANGED <<users, session, userName>>
       ELSE /\ users' = [users EXCEPT ![req[s].userId].profile = FormName,
                                      ![req[s].userId].age = ParseInt(req[s].form.age).v]
            /\ resp' = [Reply("profile", 200) EXCEPT !.success = TRUE]
            /\ IF FormName # req[s].name
               THEN /\ session' = [session EXCEPT ![s] = req[s].userId]
                    /\ userName' = [userName EXCEPT ![s] = FormName]
               ELSE UNCHANGED <<session, userName>>

\* ---------------------------------------------------------- GET /api/user
GetUser(s) ==
    /\ req[s].pc = "idle"
    /\ UNCHANGED <<session, userName, req, now, chatVars, postVars, userVars>>
    /\ resp' = [Reply("user", 200) EXCEPT !.success = TRUE,
                                          !.loggedIn = (session[s] # NoUser)]

\* ------------------------------------------------------ POST /api/send-otp
\* The codes Math.random can produce.
OtpCodes == {1, 2}

\* The positions of the OTP documents of this email.  A user's email stands
\* for the user: emails are unique and no handler changes them.
OtpRows(email) == {i \in 1..Len(otps) : otps[i].email = email}

\* OTP.findOneAndDelete({email}): the collection without the first match.
DeleteOtp(email) ==
    LET found == OtpRows(email)
    IN  IF found = {} THEN otps
        ELSE Remove(otps, CHOOSE i \in found : \A j \in found : i <= j)

MaxOtps == 2

\* OTP documents constructed and not yet saved.
PendingOtps == {s \in Sessions : req[s].pc \in {"otp_delete", "otp_save"}}

\* requireAuth, `await User.findById(...)` and the generation of the code up
\* to `await OTP.findOneAndDelete({email})`.
OtpStart(s, code) ==
    /\ req[s].pc = "idle"
    /\ UNCHANGED <<session, userName, now, chatVars, postVars, userVars>>
    /\ IF ~RequireAuth(s)
       THEN /\ resp' = Reply("send-otp", 401)
            /\ UNCHANGED req
       ELSE /\ Len(otps) + Cardinality(PendingOtps) < MaxOtps
            /\ req' = [req EXCEPT ![s] =
                  [IdleReq EXCEPT !.pc = "otp_delete", !.userId = session[s],
                     !.otp = IntText(code)]]
            /\ UNCHANGED resp

\* `await OTP.findOneAndDelete({email})` up to `await new OTP(...).save()`.
OtpDelete(s) ==
    /\ req[s].pc = "otp_delete"
    /\ otps' = DeleteOtp(req[s].userId)
    /\ req' = [req EXCEPT ![s].pc = "otp_save", ![s].time = now]
    /\ UNCHANGED <<session, userName, resp, now, chatVars, postVars, users>>

\* `await new OTP({email, otp}).save()` up to `await transporter.sendMail(...)`.
OtpSave(s) ==
    /\ req[s].pc = "otp_save"
    /\ otps' = Append(otps, [email |-> req[s].userId, otp |-> req[s].otp.v,
                             createdAt |-> req[s].time])
    /\ req' = [req EXCEPT ![s].pc = "otp_mail"]
    /\ UNCHANGED <<session, userName, resp, now, chatVars, postVars, users>>

\* `await transporter.sendMail(...)`, which succeeds or fails, and the response.
OtpMail(s, ok) ==
    /\ req[s].pc = "otp_mail"
    /\ req' = [req EXCEPT ![s] = IdleReq]
    /\ resp' = IF ok THEN [Reply("send-otp", 200) EXCEPT !.success = TRUE]
                     ELSE Reply("send-otp", 500)
    /\ UNCHANGED <<session, userName, now, chatVars, postVars, userVars>>

\* ---------------------------------------------------- POST /api/verify-otp
\* The values a verify-otp body can carry as otp.
OtpTexts == {IntText(c) : c \in OtpCodes} \cup {NoText}

\* requireAuth, `await User.findById(...)` and otp.trim(), which throws for
\* a body without otp, up to `await OTP.findOne({email, otp})`.
VerStart(s, otp) ==
    /\ req[s].pc = "idle"
    /\ UNCHANGED <<session, userName, now, chatVars, postVars, userVars>>
    /\ IF ~RequireAuth(s)
       THEN /\ resp' = Reply("verify-otp", 401)
            /\ UNCHANGED req
       ELSE IF otp.kind = "absent"
       THEN /\ resp' = Reply("verify-otp", 500)
            /\ UNCHANGED req
       ELSE /\ req' = [req EXCEPT ![s] =
                  [IdleReq EXCEPT !.pc = "ver_find", !.userId = session[s],
                     !.otp = otp]]
            /\ UNCHANGED resp

\* `await OTP.findOne({email, otp})`: 'Invalid or expired OTP' when nothing is
\* found, else up to `await User.findByIdAndUpdate(...)`.
VerFind(s) ==
    /\ req[s].pc = "ver_find"
    /\ UNCHANGED <<session, userName, now, chatVars, postVars, userVars>>
    /\ IF \E i \in OtpRows(req[s].userId) : otps[i].otp = req[s].otp.v
       THEN /\ req' = [req EXCEPT ![s].pc = "ver_update"]
            /\ UNCHANGED resp
       ELSE /\ req' = [req EXCEPT ![s] = IdleReq]
            /\ resp' = Reply("verify-otp", 200)

\* `await User.findByIdAndUpdate(user._id, {emailVerified: true})`
VerUpdate(s) ==
    /\ req[s].pc = "ver_update"
    /\ users' = [users EXCEPT ![req[s].userId].emailVerified = TRUE]
    /\ req' = [req EXCEPT ![s].pc = "ver_delete"]
    /\ UNCHANGED <<session, userName, resp, now, chatVars, postVars, otps>>

\* `await OTP.findOneAndDelete({email})` and the response.
VerDelete(s) ==
    /\ req[s].pc = "ver_delete"
    /\ otps' = DeleteOtp(req[s].userId)
    /\ req' = [req EXCEPT ![s] = IdleReq]
    /\ resp' = [Reply("verify-otp", 200) EXCEPT !.success = TRUE]
    /\ UNCHANGED <<session, userName, now, chatVars, postVars, users>>

\* ------------------------------------------------ GET /api/search-flatmates
\* A query value that is a text; the texts matched by $regex are sequences
\* of characters.
Text(s) == [kind |-> "str", s |-> s]

\* String.prototype.toLowerCase on the characters in use.
Lower(c) == IF c = "K" THEN "k" ELSE IF c = "P" THEN "p" ELSE c

\* One pattern character of a regular expression with option i against one
\* character of the text: `.` matches every character, a letter matches
\* itself in either case.
CharMatches(p, c) == p = "." \/ Lower(p) = Lower(c)

\* { $regex: pattern, $options: 'i' } and new RegExp(pattern, 'i'): the
\* pattern matches somewhere in the text.
RegexFind(pattern, text) ==
    \E o \in 0..(Len(text) - Len(pattern)) :
        \A i \in 1..Len(pattern) : CharMatches(pattern[i], text[o + i])

\* A present filter value is truthy.
Given(x) == x.kind # "absent"

\* The query object built from the request, applied to one listing.
Matches(q, l) ==
    /\ Given(q.state) => RegexFind(q.state.s, l.state)
    /\ Given(q.city) => RegexFind(q.city.s, l.city)
    /\ Given(q.location) => RegexFind(q.location.s, l.location)
    /\ Given(q.minPrice) => l.price.v >= ParseInt(q.minPrice).v
    /\ Given(q.maxPrice) => l.price.v <= ParseInt(q.maxPrice).v
    /\ Given(q.furnishing) => l.furnishing = q.furnishing.s
    /\ Given(q.gender) => l.gender = q.gender.s
    /\ q.preferences # <<>> =>
          \E i \in 1..Len(q.preferences), j \in 1..Len(l.prefs) :
              RegexFind(q.preferences[i], l.prefs[j])

\* The cast of the query fails: a price bound that is NaN.
QueryCastFails(q) ==
    \/ Given(q.minPrice) /\ ParseInt(q.minPrice) = NaN
    \/ Given(q.maxPrice) /\ ParseInt(q.maxPrice) = NaN

\* The positions of the listings that match.
Matching(q) ==
    IF QueryCastFails(q) THEN {}
    ELSE {i \in 1..Len(requirements) : Matches(q, requirements[i])}

\* The sort options of sortBy: the field and the direction.
SortAlwaysNewest(sortBy) == [field |-> "createdAt", dir |-> -1]
SortOptions(sortBy) ==
    IF ~Given(sortBy) THEN [field |-> "createdAt", dir |-> -1]
    ELSE IF sortBy.s = "newest" THEN [field |-> "createdAt", dir |-> -1]
    ELSE IF sortBy.s = "oldest" THEN [field |-> "createdAt", dir |-> 1]
    ELSE IF sortBy.s = "price-low" THEN [field |-> "price", dir |-> 1]
    ELSE IF sortBy.s = "price-high" THEN [field |-> "price", dir |-> -1]
    ELSE [field |-> "createdAt", dir |-> -1]

SortKey(l, field) == IF field = "price" THEN l.price.v ELSE l.createdAt

\* The orders in which .sort(sortOptions) can return the matching listings:
\* ordered by the key, listings with equal keys in any order.
RECURSIVE Sorted(_, _)
Sorted(M, opts) ==
    IF M = {} THEN {<<>>}
    ELSE LET first == {x \in M : \A y \in M :
                          opts.dir * SortKey(requirements[x], opts.field)
                            <= opts.dir * SortKey(requirements[y], opts.field)}
         IN  UNION {{<<x>> \o rest : rest \in Sorted(M \ {x}, opts)} : x \in first}

\* page = 1 and limit = 6 when the query has none.
DefaultPage == 1
DefaultLimit == 6

PageNum(q) == IF Given(q.page) THEN ParseInt(q.page) ELSE Num(DefaultPage)
LimitNum(q) == IF Given(q.limit) THEN ParseInt(q.limit) ELSE Num(DefaultLimit)

\* (pageNum - 1) * limitNum
SkipOffByOne(pageNum, limitNum) ==
    IF pageNum = NaN \/ limitNum = NaN THEN NaN
    ELSE Num(pageNum.v * limitNum.v)
Skip(pageNum, limitNum) ==
    IF pageNum = NaN \/ limitNum = NaN THEN NaN
    ELSE Num((pageNum.v - 1) * limitNum.v)

\* The find is rejected: skip or limit is NaN, or skip is negative.
FindFails(skip, limitNum) ==
    skip = NaN \/ limitNum = NaN \/ skip.v < 0

\* .skip(skip).limit(limitNum) of a sorted result: a limit of 0 is no limit,
\* a negative limit is its absolute value.
Window(sorted, skip, limitNum) ==
    LET n == Len(sorted)
        lim == IF limitNum < 0 THEN 0 - limitNum ELSE limitNum
        last == IF lim = 0 THEN n ELSE Min(n, skip + lim)
    IN  [i \in 1..(IF last > skip THEN last - skip ELSE 0) |-> sorted[skip + i]]

\* Math.ceil(totalCount / limitNum) for a count and a number.
CeilDiv(totalCount, limitNum) ==
    IF limitNum = NaN THEN NaN
    ELSE IF limitNum.v = 0
    THEN (IF totalCount = 0 THEN NaN ELSE Infinity)
    ELSE IF limitNum.v > 0
    THEN Num((totalCount + limitNum.v - 1) \div limitNum.v)
    ELSE Num(0 - (totalCount \div (0 - limitNum.v)))

\* a < b and a > b on numbers.
Less(a, b) ==
    IF a = NaN \/ b = NaN THEN FALSE
    ELSE IF a = Infinity THEN FALSE
    ELSE IF b = Infinity THEN TRUE
    ELSE a.v < b.v
Greater(a, b) == Less(b, a)

\* JSON.stringify of a number: null for NaN and Infinity.
JsonNull == [k |-> "null", v |-> 0]
Json(x) == IF x.k = "num" THEN x ELSE JsonNull

\* The pagination object of the response.
Pagination(pageNum, limitNum, totalCount) ==
    LET totalPages == CeilDiv(totalCount, limitNum)
    IN  [kind |-> "pagination",
         currentPage |-> Json(pageNum),
         totalPages |-> Json(totalPages),
         totalCount |-> totalCount,
         hasNextPage |-> Less(pageNum, totalPages),
         hasPrevPage |-> Greater(pageNum, Num(1)),
         limit |-> Json(limitNum)]

\* A query string of search-flatmates.
Query(state, city, location, minPrice, maxPrice, furnishing, gender, preferences, sortBy, page, limit) ==
    [kind |-> "query", state |-> state, city |-> city, location |-> location,
     minPrice |-> minPrice, maxPrice |-> maxPrice, furnishing |-> furnishing,
     gender |-> gender, preferences |-> preferences, sortBy |-> sortBy,
     page |-> page, limit |-> limit]

\* The whole handler: the query and the sort options are built, find and
\* countDocuments run together, and the response carries the page found (as
\* the _ids of its listings) and the pagination object.  A rejected find or
\* count is answered 500.
Search(q) ==
    /\ \A s \in Sessions : req[s].pc = "idle"
    /\ UNCHANGED <<session, userName, req, now, chatVars, postVars, userVars>>
    /\ LET pageNum == PageNum(q)
           limitNum == LimitNum(q)
           skip == Skip(pageNum, limitNum)
           M == Matching(q)
       IN  IF QueryCastFails(q) \/ FindFails(skip, limitNum)
           THEN resp' = [Reply("search", 500) EXCEPT !.query = q]
           ELSE \E sorted \in Sorted(M, SortOptions(q.sortBy)) :
                    resp' = [Reply("search", 200) EXCEPT
                                !.success = TRUE,
                                !.query = q,
                                !.data = [i \in DOMAIN Window(sorted, skip.v, limitNum.v) |->
                                            requirements[Window(sorted, skip.v, limitNum.v)[i]]._id],
                                !.pagination = Pagination(pageNum, limitNum, Cardinality(M))]

\* The queries that filter: every filter absent or present with a few values.
FilterQueries ==
    {Query(st, ci, lo, mn, mx, fu, ge, pr, NoText, NoText, NoText) :
        st \in {NoText, Text(<<"k">>), Text(<<".">>)},
        ci \in {NoText, Text(<<"A", "K">>)},
        lo \in {NoText, Text(<<"Z">>)},
        mn \in {NoText, IntText(20)},
        mx \in {NoText, IntText(10)},
        fu \in {NoText, Text("Furnished")},
        ge \in {NoText, Text("Male")},
        pr \in {<<>>, <<(<<"z">>), (<<"K">>)>>}}

\* The queries that sort and page the whole store.
PageQueries ==
    {Query(NoText, NoText, NoText, NoText, NoText, NoText, NoText, <<>>, so, pa, li) :
        so \in {NoText, Text("newest"), Text("oldest"), Text("price-low"),
                Text("price-high"), Text("cheapest")},
        pa \in {NoText, IntText(0), IntText(1), IntText(2), IntText(3), Junk},
        li \in {NoText, IntText(0), IntText(1), IntText(2), IntText(-1), Junk}}

\* requireAuth, `await Requirement.find({userId}).sort({createdAt: -1})` and
\* the response with the listings found (as their _ids).
MyPosts(s) ==
    /\ req[s].pc = "idle"
    /\ UNCHANGED <<session, userName, req, now, chatVars, postVars, userVars>>
    /\ IF ~RequireAuth(s)
       THEN resp' = Reply("my-posts", 401)
       ELSE \E sorted \in Sorted(FindByOwner(session[s]), [field |-> "createdAt", dir |-> -1]) :
                resp' = [Reply("my-posts", 200) EXCEPT
                            !.query = Mine(session[s]),
                            !.data = [i \in DOMAIN sorted |-> requirements[sorted[i]]._id]]

\* --------------------------------------------------------- specifications
\* A registered user whose email is not verified.
NewUser == [profile |-> 0, age |-> 18, emailVerified |-> FALSE]

NextConv ==
    \/ Tick
    \/ \E s \in Sessions, u \in Users : Login(s, u)
    \/ \E s \in Sessions : Logout(s)
    \/ \E s \in Sessions, o \in UserTexts : ConvStart(s, o)
    \/ \E s \in Sessions : ConvSave(s)

Init ==
    /\ session = [s \in Sessions |-> NoUser]
    /\ userName = [s \in Sessions |-> Null]
    /\ conversations = <<>>
    /\ messages = <<>>
    /\ req = [s \in Sessions |-> IdleReq]
    /\ resp = NoResp
    /\ now = 0
    /\ socks = [k \in Sockets |-> "new"]
    /\ rooms = [k \in Sockets |-> {}]
    /\ inbox = [k \in Sockets |-> <<>>]
    /\ ackd = {}
    /\ requirements = <<>>
    /\ savedPosts = <<>>
    /\ cloud = {}
    /\ posted = 0
    /\ uploaded = 0
    /\ users = [u \in Users |-> NewUser]
    /\ otps = <<>>

\* The conversation store from an empty database.
SpecConv == Init /\ [][NextConv]_vars

\* A database in which users 1 and 2, and users 2 and 3, have made contact;
\* user 1 is logged in on session 1 and user 2 on session 2.
InitChat ==
    /\ session = [s \in Sessions |-> s]
    /\ userName = [s \in Sessions |-> NewUser.profile]
    /\ conversations = <<NewConversation(1, 2, 0), NewConversation(2, 3, 0)>>
    /\ messages = <<>>
    /\ req = [s \in Sessions |-> IdleReq]
    /\ resp = NoResp
    /\ now = 0
    /\ socks = [k \in Sockets |-> "new"]
    /\ rooms = [k \in Sockets |-> {}]
    /\ inbox = [k \in Sockets |-> <<>>]
    /\ ackd = {}
    /\ requirements = <<>>
    /\ savedPosts = <<>>
    /\ cloud = {}
    /\ posted = 0
    /\ uploaded = 0
    /\ users = [u \in Users |-> NewUser]
    /\ otps = <<>>

\* The three steps of GET /api/messages/:conversationId.
ListMessages ==
    \/ \E s \in Sessions, c \in ConvTexts : ListStart(s, c)
    \/ \E s \in Sessions : ListFind(s)
    \/ \E s \in Sessions : ListMark(s)

\* The four steps of POST /api/messages, its conversationId drawn from C, its
\* receiverId from R and its message from B.
SendMessage(C, R, B) ==
    \/ \E s \in Sessions, c \in C, r \in R, m \in B : SendStart(s, c, r, m)
    \/ \E s \in Sessions : SendSave(s)
    \/ \E s \in Sessions : SendUpdate(s)
    \/ \E s \in Sessions : SendEmit(s)

\* The socket.io events of the clients.
SocketEvents ==
    \/ \E k \in Sockets : Connect(k)
    \/ \E k \in Sockets, c \in RoomTexts : Join(k, c)
    \/ \E k \in Sockets, c \in RoomTexts : Leave(k, c)
    \/ \E k \in Sockets : Disconnect(k)

NextRead == ListMessages \/ SendMessage(ConvTexts, ReceiverTexts, ShortBodies)

NextSummary ==
    Tick \/ SendMessage({Hex(ConvOid(1), FALSE), Hex(ConvOid(2), FALSE)},
                        {Hex(1, FALSE), Absent}, Bodies)

NextFanout == SendMessage(ConvTexts, {Hex(1, FALSE)}, ShortBodies) \/ SocketEvents

\* Messages and their read flags: sending and listing.
SpecRead == InitChat /\ [][NextRead]_vars

\* The conversation summary: sending while time passes.
SpecSummary == InitChat /\ [][NextSummary]_vars

\* The realtime fan-out: sending while clients join and leave.
SpecFanout == InitChat /\ [][NextFanout]_vars

NextOrder ==
    \/ SendMessage({Hex(ConvOid(1), FALSE)}, {Hex(1, FALSE), Hex(2, FALSE)},
                   {StrBody(Str("a", 1))})
    \/ \E k \in Sockets : Connect(k)
    \/ \E k \in Sockets : Join(k, Hex(ConvOid(1), FALSE))

\* Both participants of one conversation sending to each other while clients
\* connect and join its channel and never leave it.
SpecOrder == InitChat /\ [][NextOrder]_vars

\* A database with a listing of user 1 that has two images and a listing of
\* user 2 that has one; each session is logged in as user 1 or as user 2.
InitPosts ==
    /\ session \in [Sessions -> {1, 2}]
    /\ userName = [s \in Sessions |-> NewUser.profile]
    /\ conversations = <<>>
    /\ messages = <<>>
    /\ req = [s \in Sessions |-> IdleReq]
    /\ resp = NoResp
    /\ now = 0
    /\ socks = [k \in Sockets |-> "new"]
    /\ rooms = [k \in Sockets |-> {}]
    /\ inbox = [k \in Sockets |-> <<>>]
    /\ ackd = {}
    /\ requirements = <<NewRequirement(PostOid(1), 1, {1, 2}, SampleForm(1), 0),
                        NewRequirement(PostOid(2), 2, {3}, SampleForm(2), 0)>>
    /\ savedPosts = <<>>
    /\ cloud = {1, 2, 3}
    /\ posted = 2
    /\ uploaded = 3
    /\ users = [u \in Users |-> NewUser]
    /\ otps = <<>>

\* The three steps of POST /api/save-post/:postId.
SavePost ==
    \/ \E s \in Sessions, p \in PostTexts : SaveStart(s, p)
    \/ \E s \in Sessions : SaveFind(s)
    \/ \E s \in Sessions : SaveInsert(s)

\* The steps of DELETE /api/my-posts/:postId.
DeletePost ==
    \/ \E s \in Sessions, p \in PostTexts : DelStart(s, p)
    \/ \E s \in Sessions, failed \in SUBSET cloud : DelImages(s, failed)
    \/ \E s \in Sessions : DelRow(s)

NextPosts ==
    \/ SavePost
    \/ \E s \in Sessions, p \in PostTexts : Unsave(s, p)
    \/ DeletePost

\* Saved posts and the deletion of listings.
SpecPosts == InitPosts /\ [][NextPosts]_vars

\* The write operations as single requests with one value for each input:
\* the steps that follow the first.
WriteSteps ==
    \/ \E s \in Sessions : ConvSave(s)
    \/ \E s \in Sessions : ListFind(s) \/ ListMark(s)
    \/ \E s \in Sessions : SendSave(s) \/ SendUpdate(s) \/ SendEmit(s)
    \/ \E s \in Sessions : CreateUpload(s, TRUE)
    \/ \E s \in Sessions : CreateSave(s)
    \/ \E s \in Sessions : DelImages(s, {})
    \/ \E s \in Sessions : DelRow(s)
    \/ \E s \in Sessions : SaveFind(s) \/ SaveInsert(s)
    \/ \E s \in Sessions : ProfileUpdate(s)
    \/ \E s \in Sessions : OtpDelete(s) \/ OtpSave(s)
    \/ \E s \in Sessions : OtpMail(s, TRUE)
    \/ \E s \in Sessions : VerFind(s) \/ VerUpdate(s) \/ VerDelete(s)

\* The first step of a write operation on session s.
WriteStart(s) ==
    \/ ConvStart(s, Hex(2, FALSE))
    \/ ListStart(s, Hex(ConvOid(1), FALSE))
    \/ SendStart(s, Hex(ConvOid(1), FALSE), Hex(2, FALSE), StrBody(Str("a", 1)))
    \/ CreateStart(s, 2, SampleForm(1))
    \/ DelStart(s, Hex(PostOid(1), FALSE))
    \/ SaveStart(s, Hex(PostOid(1), FALSE))
    \/ Unsave(s, Hex(PostOid(1), FALSE))
    \/ ProfileStart(s, ProfileForm("full", IntText(30)))
    \/ OtpStart(s, 1)
    \/ VerStart(s, IntText(1))

NextAuth ==
    \/ Login(1, 1)
    \/ Logout(1)
    \/ \E s \in Sessions : GetUser(s)
    \/ \E s \in Sessions : WriteStart(s)
    \/ WriteSteps

\* Every write operation with and without a login: user 1 logs in and out
\* on session 1, and session 2 never logs in.
SpecAuth == Init /\ [][NextAuth]_vars

MaxStore == 3

\* A database that holds the first n sample listings, the k-th created by
\* user 1 at time k without images, for an n out of `sizes`.
InitSearchOf(sizes) ==
    /\ session = [s \in Sessions |-> NoUser]
    /\ userName = [s \in Sessions |-> Null]
    /\ conversations = <<>>
    /\ messages = <<>>
    /\ req = [s \in Sessions |-> IdleReq]
    /\ resp = NoResp
    /\ now = 0
    /\ socks = [k \in Sockets |-> "new"]
    /\ rooms = [k \in Sockets |-> {}]
    /\ inbox = [k \in Sockets |-> <<>>]
    /\ ackd = {}
    /\ \E n \in sizes :
          /\ requirements = [k \in 1..n |-> NewRequirement(PostOid(k), 1, {}, SampleForm(k), k)]
          /\ posted = n
    /\ savedPosts = <<>>
    /\ cloud = {}
    /\ uploaded = 0
    /\ users = [u \in Users |-> NewUser]
    /\ otps = <<>>

InitSearch == InitSearchOf(0..MaxStore)

\* More listings than the default limit.
MaxListed == 7

InitPage == InitSearchOf({0, 3, MaxListed})

\* The queries whose numeric parameters are absent, numbers or no numbers.
NumericQueries ==
    {Query(NoText, NoText, NoText, mn, mx, NoText, NoText, <<>>, NoText, pa, li) :
        mn \in {NoText, IntText(20), Junk},
        mx \in {NoText, IntText(10), Junk},
        pa \in {NoText, IntText(2), Junk},
        li \in {NoText, IntText(1), Junk}}

NextFilter == \E q \in FilterQueries : Search(q)

NextNumeric == \E q \in NumericQueries : Search(q)

NextPage == \E q \in PageQueries : Search(q)

\* Searches with filters on a store without writes.
SpecFilter == InitSearch /\ [][NextFilter]_vars

\* Searches with numeric parameters on a store without writes.
SpecNumeric == InitSearch /\ [][NextNumeric]_vars

\* Searches with sortBy, page and limit on a store without writes.
SpecPage == InitPage /\ [][NextPage]_vars

\* User 1, registered and not verified, is logged in on both sessions.
InitOtp ==
    /\ session = [s \in Sessions |-> 1]
    /\ userName = [s \in Sessions |-> NewUser.profile]
    /\ conversations = <<>>
    /\ messages = <<>>
    /\ req = [s \in Sessions |-> IdleReq]
    /\ resp = NoResp
    /\ now = 0
    /\ socks = [k \in Sockets |-> "new"]
    /\ rooms = [k \in Sockets |-> {}]
    /\ inbox = [k \in Sockets |-> <<>>]
    /\ ackd = {}
    /\ requirements = <<>>
    /\ savedPosts = <<>>
    /\ cloud = {}
    /\ posted = 0
    /\ uploaded = 0
    /\ users = [u \in Users |-> NewUser]
    /\ otps = <<>>

NextOtp ==
    \/ \E s \in Sessions, c \in OtpCodes : OtpStart(s, c)
    \/ \E s \in Sessions : OtpDelete(s)
    \/ \E s \in Sessions : OtpSave(s)
    \/ \E s \in Sessions, ok \in BOOLEAN : OtpMail(s, ok)
    \/ \E s \in Sessions, otp \in OtpTexts : VerStart(s, otp)
    \/ \E s \in Sessions : VerFind(s)
    \/ \E s \in Sessions : VerUpdate(s)
    \/ \E s \in Sessions : VerDelete(s)

\* The email verification of one user from two browser tabs.
SpecOtp == InitOtp /\ [][NextOtp]_vars

NextLive ==
    \/ NextOrder
    \/ \E s \in Sessions : ListStart(s, Hex(ConvOid(1), FALSE))
    \/ \E s \in Sessions : ListFind(s)
    \/ \E s \in Sessions : ListMark(s)

\* Both participants of one conversation sending to each other and listing
\* its messages while clients connect and join its channel.
SpecLive == InitChat /\ [][NextLive]_vars

NextMine ==
    \/ Tick
    \/ \E u \in {1, 2} : Login(1, u)
    \/ Login(2, 2)
    \/ Logout(1)
    \/ CreateStart(1, 0, SampleForm(1))
    \/ CreateUpload(1, TRUE)
    \/ CreateSave(1)
    \/ DelStart(2, Hex(PostOid(1), FALSE))
    \/ DelRow(2)
    \/ \E s \in Sessions : MyPosts(s)

\* Users 1 and 2 create listings, delete the first one and list their own.
SpecMine == Init /\ [][NextMine]_vars

\* ================================================================== claims

\* C1: at every moment, whatever create-or-get requests ran or are running,
\* no two stored conversations have the same unordered pair of participants
\* (stated for the pairs of two different users, the ones the claim is about).
C1_AtMostOneConversationPerPair ==
    \A i, j \in 1..Len(conversations) :
        ( /\ i # j
          /\ Cardinality(SetOf(conversations[i].participants)) = 2 )
        => SetOf(conversations[i].participants) # SetOf(conversations[j].participants)

\* C2: when a create-or-get call for two distinct users has completed with a
\* conversation and a call for the same pair (named in either order, by either
\* user) starts after it, that call answers at once with the same conversation
\* id and creates nothing.
C2_SecondCallSameConversation ==
    [][\A s \in Sessions, o \in UserTexts :
          ( /\ resp.status = 200
            /\ Cardinality(resp.pair) = 2
            /\ RequireAuth(s)
            /\ ~CastFails(o)
            /\ {session[s], CastObjectId(o)} = resp.pair
            /\ ConvStart(s, o) )
          => ( /\ req'[s].pc = "idle"
               /\ resp'.status = 200
               /\ resp'.cid = resp.cid
               /\ ~resp'.created
               /\ conversations' = conversations )]_vars

\* C3: every stored conversation has exactly two participants and they are
\* two different users.
C3_TwoDistinctParticipants ==
    \A c \in 1..Len(conversations) :
        /\ Len(conversations[c].participants) = 2
        /\ conversations[c].participants[1] # conversations[c].participants[2]

\* The request value t names no stored conversation that has u as a participant.
NotMember(u, t) ==
    ~ \E c \in 1..Len(conversations) :
          /\ t.kind = "hex"
          /\ t.id = ConvOid(c)
          /\ u \in SetOf(conversations[c].participants)

\* C4: a send-message request of a logged-in user who is no participant of the
\* conversation it names (or that names no stored conversation) is answered
\* 403, and stores no message, changes no conversation summary and delivers
\* nothing to any socket.
C4_SendByOutsiderDenied ==
    [][\A s \in Sessions, c \in ConvTexts, r \in ReceiverTexts, m \in Bodies :
          ( /\ RequireAuth(s)
            /\ NotMember(session[s], c)
            /\ SendStart(s, c, r, m) )
          => ( /\ resp'.status = 403
               /\ req'[s].pc = "idle"
               /\ messages' = messages
               /\ conversations' = conversations
               /\ inbox' = inbox )]_vars

\* C5: a list-messages request of a logged-in user who is no participant of
\* the conversation it names is answered 403, fetches no messages and changes
\* no read flag.
C5_ListByOutsiderDenied ==
    [][\A s \in Sessions, c \in ConvTexts :
          ( /\ RequireAuth(s)
            /\ NotMember(session[s], c)
            /\ ListStart(s, c) )
          => ( /\ resp'.status = 403
               /\ req'[s].pc = "idle"
               /\ messages' = messages )]_vars

\* C6: the updateMany step of a list-messages call by participant R on
\* conversation C leaves every stored message of C addressed to R read, and
\* leaves the read flag of every other message as it was.
C6_ListMarksReceiverMessages ==
    [][\A s \in Sessions :
          ListMark(s) =>
            LET c == CastObjectId(req[s].conv)
                R == req[s].userId
            IN  /\ Len(messages') = Len(messages)
                /\ \A i \in 1..Len(messages) :
                      IF messages[i].conversationId = c /\ messages[i].receiverId = R
                      THEN messages'[i].read
                      ELSE messages'[i].read = messages[i].read]_vars

\* C6 witness: a list call has completed and left one message read and another
\* message of the same conversation, addressed to someone else, unread.
C6_Witness ==
    \E i, j \in 1..Len(messages) :
        /\ messages[i].read /\ i \in ackd
        /\ ~messages[j].read
        /\ messages[j].conversationId = messages[i].conversationId
        /\ messages[j].receiverId # messages[i].receiverId

\* C7: no step changes the conversationId, senderId, receiverId, message or
\* createdAt of a stored message or removes a message; a read flag never goes
\* from true to false, and it goes from false to true only in the updateMany
\* step of a list-messages call made by the message's receiver.
C7_MessageImmutableButRead ==
    [][/\ Len(messages') >= Len(messages)
       /\ \A i \in 1..Len(messages) :
             /\ messages'[i].conversationId = messages[i].conversationId
             /\ messages'[i].senderId = messages[i].senderId
             /\ messages'[i].receiverId = messages[i].receiverId
             /\ messages'[i].message = messages[i].message
             /\ messages'[i].createdAt = messages[i].createdAt
             /\ messages[i].read => messages'[i].read
             /\ (~messages[i].read /\ messages'[i].read) =>
                   \E s \in Sessions :
                       /\ ListMark(s)
                       /\ req[s].userId = messages[i].receiverId]_vars

\* C7 witness: a message sent to the other participant has been marked read
\* while a later message is stored unread.
C7_Witness ==
    \E i, j \in 1..Len(messages) :
        /\ i < j
        /\ messages[i].read
        /\ messages[i].senderId # messages[i].receiverId
        /\ ~messages[j].read

\* C8: once a list-messages call by B has completed on a conversation in which
\* a message from A to B was stored, every fetch of a list-messages call by A
\* on that conversation returns that message with read = true.
C8_SenderSeesRead ==
    [][\A s \in Sessions :
          ListFind(s) =>
            \A i \in ackd :
                ( /\ messages[i].conversationId = CastObjectId(req[s].conv)
                  /\ messages[i].senderId = req[s].userId
                  /\ messages[i].receiverId # req[s].userId )
                => [m |-> i, read |-> TRUE] \in req'[s].result]_vars

\* C8 witness: A's list-messages call has fetched, with read = true, a message
\* A sent to B that B's completed call acknowledged.
C8_Witness ==
    \E s \in Sessions, i \in ackd :
        /\ req[s].pc = "list_mark"
        /\ messages[i].senderId = req[s].userId
        /\ messages[i].receiverId # req[s].userId
        /\ [m |-> i, read |-> TRUE] \in req[s].result

\* The first n characters of s, all of s when it is shorter.
FirstChars(s, n) == IF s.len <= n THEN s ELSE [ch |-> s.ch, len |-> n]

\* C9: for a send-message call that no other send-message call overlaps: its
\* summary update does not move the conversation's lastMessageTime backwards
\* and changes no other conversation, and when the call completes the
\* conversation's lastMessage is the first 100 characters of the body sent.
C9_SummaryAfterSend ==
    [][\A s \in Sessions :
          LET c == ConvIndex(CastObjectId(req[s].conv))
          IN  /\ (SendUpdate(s) /\ req[s].solo) =>
                    /\ conversations'[c].lastMessageTime >= conversations[c].lastMessageTime
                    /\ \A d \in 1..Len(conversations) :
                          d # c => conversations'[d] = conversations[d]
              /\ (SendEmit(s) /\ req[s].solo) =>
                    /\ conversations'[c].lastMessage = FirstChars(req[s].body.str, 100)
                    /\ conversations' = conversations]_vars

\* C9 witness: a send with a body longer than 100 characters has completed and
\* the summary holds its first 100 characters, written at a later time than
\* the conversation was created.
C9_Witness ==
    \E c \in 1..Len(conversations), i \in 1..Len(messages) :
        /\ SendsInFlight = {}
        /\ resp.status = 200
        /\ messages[i].conversationId = ConvOid(c)
        /\ messages[i].message.len > 100
        /\ conversations[c].lastMessage = [ch |-> messages[i].message.ch, len |-> 100]
        /\ conversations[c].lastMessageTime > 0

\* C10: when a send-message call on conversation C emits, every connected
\* socket that has joined C's channel (join-conversation with C's id, not left
\* since) receives the new message.
C10_EmitReachesJoined ==
    [][\A s \in Sessions :
          SendEmit(s) =>
            \A k \in Sockets :
                ( /\ socks[k] = "open"
                  /\ toString(CastObjectId(req[s].conv)) \in rooms[k] )
                => inbox'[k] = Append(inbox[k], req[s].msg)]_vars

\* C11: a socket's received events change only when a send-message call emits
\* to a room the socket is in at that moment, and then by exactly one event
\* carrying a message the socket has not received before; joining a room,
\* once or repeatedly, delivers nothing, so a message emitted before a client
\* joined is never delivered to it.
C11_AtMostOnceNoReplay ==
    [][\A k \in Sockets :
          inbox'[k] # inbox[k] =>
            \E s \in Sessions :
                /\ SendEmit(s)
                /\ socks[k] = "open"
                /\ req[s].conv \in rooms[k]
                /\ inbox'[k] = Append(inbox[k], req[s].msg)
                /\ \A i \in 1..Len(inbox[k]) : inbox[k][i] # req[s].msg]_vars

\* C11 witness: every send has completed; a socket that joined the channel
\* under both spellings of its id holds exactly one event, and a socket that
\* is in the channel now holds none.
C11_Witness ==
    \E k, l \in Sockets :
        /\ k # l
        /\ SendsInFlight = {}
        /\ Len(messages) >= 1
        /\ socks[k] = "open" /\ rooms[k] = RoomTexts /\ Len(inbox[k]) = 1
        /\ socks[l] = "open" /\ rooms[l] # {} /\ inbox[l] = <<>>

\* C12: every socket has received the messages in the order in which they
\* were appended to the store.
C12_DeliveryInAppendOrder ==
    \A k \in Sockets :
        \A i, j \in 1..Len(inbox[k]) : i < j => inbox[k][i] < inbox[k][j]

\* C13: every message a socket has received belongs to a conversation in
\* which the socket's user is a participant.
C13_OnlyParticipantsReceive ==
    \A k \in Sockets :
        \A i \in 1..Len(inbox[k]) :
            SocketUser(k) \in
                SetOf(conversations[ConvIndex(messages[inbox[k][i]].conversationId)].participants)

\* C14: at every moment, whatever save-post requests ran or are running, no
\* two stored SavedPost documents have the same userId and the same postId.
C14_AtMostOneSavedPostPerPair ==
    \A i, j \in 1..Len(savedPosts) :
        i # j => ( \/ savedPosts[i].userId # savedPosts[j].userId
                   \/ savedPosts[i].postId # savedPosts[j].postId )

\* C14 witness: a save-post request found no document, constructed one and is
\* about to insert it, while a concurrent request of the same user for the
\* same listing has already inserted its own.
C14_Witness ==
    \E s \in Sessions :
        /\ req[s].pc = "save_insert"
        /\ SavedRows(req[s].userId, CastObjectId(req[s].post)) # {}

NotOwned(u, t) ==
    ~ \E i \in 1..Len(requirements) :
          /\ t.kind = "hex"
          /\ t.id = requirements[i]._id
          /\ requirements[i].userId = u

\* The _ids of the stored listings.
ListingIds(reqs) == {reqs[i]._id : i \in 1..Len(reqs)}

\* C16: a delete-post request of a logged-in user who owns no stored listing
\* with the id it names is answered with a failure (403, or 500 for an id that
\* is no ObjectId) at once and changes neither the listings nor the stored
\* images; a listing leaves the store only in the deleteOne step of a delete
\* request made by its owner, and an image of a stored listing leaves the
\* object store only in a delete request of the listing's owner.
C16_DeleteOnlyByOwner ==
    [][/\ \A s \in Sessions, p \in PostTexts :
             ( /\ RequireAuth(s)
               /\ NotOwned(session[s], p)
               /\ DelStart(s, p) )
             => ( /\ resp'.status \in {403, 500}
                  /\ req'[s].pc = "idle"
                  /\ requirements' = requirements
                  /\ cloud' = cloud )
       /\ \A i \in 1..Len(requirements) :
             requirements[i]._id \notin ListingIds(requirements') =>
                \E s \in Sessions :
                    /\ DelRow(s)
                    /\ req[s].userId = requirements[i].userId
                    /\ CastObjectId(req[s].post) = requirements[i]._id
       /\ \A i \in 1..Len(requirements) :
             \A img \in (requirements[i].images \cap cloud) \ cloud' :
                \E s \in Sessions :
                    /\ \E failed \in SUBSET cloud : DelImages(s, failed)
                    /\ req[s].userId = requirements[i].userId
                    /\ CastObjectId(req[s].post) = requirements[i]._id]_vars

\* C16 witness: both sessions belong to user 1, who has deleted the own
\* listing; the last delete request was answered 403 and the listing of user 2
\* is stored with its image.
C16_Witness ==
    /\ \A s \in Sessions : session[s] = 1
    /\ resp.status = 403
    /\ Len(requirements) = 1
    /\ requirements[1].userId = 2
    /\ requirements[1].images \subseteq cloud

\* C17: when the destroy calls of an owner's delete request have ended, with
\* whatever failures, the request goes on to delete the listing; and its
\* deleteOne step removes the listing and answers 200.
C17_ImageFailureDoesNotBlock ==
    [][\A s \in Sessions :
          /\ \A failed \in SUBSET cloud :
                DelImages(s, failed) => req'[s].pc = "del_row"
          /\ DelRow(s) =>
                /\ resp'.status = 200
                /\ CastObjectId(req[s].post) \notin ListingIds(requirements')]_vars

\* C18: the first step of every write operation (create listing, delete
\* listing, save and unsave post, create-or-get conversation, send message,
\* list messages, profile update, send-otp, verify-otp) on a session without a
\* user id answers 401, starts no request and changes nothing that is stored.
C18_UnauthenticatedWriteRejected ==
    [][\A s \in Sessions :
          (session[s] = NoUser /\ WriteStart(s)) =>
             /\ resp'.status = 401
             /\ UNCHANGED <<session, userName, req, chatVars, postVars, userVars>>]_vars

\* C18 witness: listings, saved posts, messages and OTPs are stored, nobody is
\* logged in, no request is in flight and the last request was answered 401.
C18_Witness ==
    /\ \A s \in Sessions : session[s] = NoUser /\ req[s].pc = "idle"
    /\ resp.status = 401
    /\ requirements # <<>>
    /\ savedPosts # <<>>
    /\ messages # <<>>
    /\ otps # <<>>

\* The page and the limit a search request asks for: the integer it carries,
\* or 1 and 6 when it carries none.
AskedPage(q) == IF q.page.kind = "int" THEN q.page.v ELSE 1
AskedLimit(q) == IF q.limit.kind = "int" THEN q.limit.v ELSE 6

\* t = ceil(n / d)
IsCeilOf(t, n, d) ==
    \/ d > 0 /\ (t - 1) * d < n /\ n <= t * d
    \/ d < 0 /\ (t - 1) * d > n /\ n >= t * d

\* C19: the pagination object of every search response has totalCount = the
\* number of stored listings (the searches of this specification filter
\* nothing), totalPages = ceil(totalCount / limit), hasNextPage =
\* (currentPage < totalPages) and hasPrevPage = (currentPage > 1).
C19_PaginationEnvelope ==
    (resp.status = 200 /\ resp.query.kind = "query") =>
        LET p == resp.pagination
            P == AskedPage(resp.query)
            L == AskedLimit(resp.query)
        IN  /\ p.totalCount = Len(requirements)
            /\ p.currentPage = Num(P)
            /\ p.totalPages.k = "num"
            /\ IsCeilOf(p.totalPages.v, p.totalCount, L)
            /\ p.hasNextPage = (P < p.totalPages.v)
            /\ p.hasPrevPage = (P > 1)

\* Text `part` occurs in `text`, letters compared without regard to case.
ContainsIgnoreCase(text, part) ==
    \E o \in 0..(Len(text) - Len(part)) :
        \A i \in 1..Len(part) : Lower(part[i]) = Lower(text[o + i])

\* Listing l satisfies every active predicate of query q.
Satisfies(q, l) ==
    /\ q.state.kind = "str" => ContainsIgnoreCase(l.state, q.state.s)
    /\ q.city.kind = "str" => ContainsIgnoreCase(l.city, q.city.s)
    /\ q.location.kind = "str" => ContainsIgnoreCase(l.location, q.location.s)
    /\ q.minPrice.kind = "int" => q.minPrice.v <= l.price.v
    /\ q.maxPrice.kind = "int" => l.price.v <= q.maxPrice.v
    /\ q.furnishing.kind = "str" => l.furnishing = q.furnishing.s
    /\ q.gender.kind = "str" => l.gender = q.gender.s
    /\ q.preferences # <<>> =>
          \E i \in 1..Len(q.preferences), j \in 1..Len(l.prefs) :
              ContainsIgnoreCase(l.prefs[j], q.preferences[i])

\* C20: in a store without writes, a search whose page holds the whole result
\* (page 1, limit 6, fewer than 6 listings) returns exactly the stored
\* listings that satisfy every active predicate, and totalCount is their
\* number.
C20_SearchReturnsExactlyMatching ==
    (resp.status = 200 /\ resp.query.kind = "query") =>
        LET S == {i \in 1..Len(requirements) : Satisfies(resp.query, requirements[i])}
        IN  /\ SetOf(resp.data) = {requirements[i]._id : i \in S}
            /\ Len(resp.data) = Cardinality(S)
            /\ resp.pagination.totalCount = Cardinality(S)

\* The query without the numeric parameters that do not parse as a number.
WithoutUnparsed(q) ==
    [q EXCEPT !.minPrice = IF @ = Junk THEN NoText ELSE @,
              !.maxPrice = IF @ = Junk THEN NoText ELSE @,
              !.page = IF @ = Junk THEN NoText ELSE @,
              !.limit = IF @ = Junk THEN NoText ELSE @]

\* C21: the response to a search with a minPrice, maxPrice, page or limit
\* that does not parse as a number is the response to the same request
\* without that parameter: same status, same matching count and pagination.
C21_UnparsedNumberIsAbsent ==
    (resp.query.kind = "query" /\ WithoutUnparsed(resp.query) # resp.query) =>
        LET q == WithoutUnparsed(resp.query)
        IN  /\ resp.status = 200
            /\ resp.pagination =
                  Pagination(PageNum(q), LimitNum(q), Cardinality(Matching(q)))

\* The stored listing with this _id.
ListingOf(id) == requirements[CHOOSE i \in 1..Len(requirements) : requirements[i]._id = id]

\* The quantity by which the result of a search with this sortBy ascends:
\* the price for price-low, its negative for price-high, createdAt for
\* oldest, and the negative of createdAt for newest and everything else.
OrderKey(sortBy, l) ==
    IF sortBy = Text("price-low") THEN l.price.v
    ELSE IF sortBy = Text("price-high") THEN 0 - l.price.v
    ELSE IF sortBy = Text("oldest") THEN l.createdAt
    ELSE 0 - l.createdAt

\* C22: in the page of every search response, every adjacent pair is ordered
\* by the requested sortBy (newest for an absent or unrecognised one).
C22_PageOrderedBySortBy ==
    (resp.status = 200 /\ resp.query.kind = "query") =>
        \A i \in 1..(Len(resp.data) - 1) :
            OrderKey(resp.query.sortBy, ListingOf(resp.data[i]))
                <= OrderKey(resp.query.sortBy, ListingOf(resp.data[i + 1]))

\* C22 witness: a page sorted price-low holds three listings: two of equal
\* price, the one created later first, and then a dearer one.
C22_Witness ==
    /\ resp.status = 200
    /\ resp.query.kind = "query"
    /\ resp.query.sortBy = Text("price-low")
    /\ Len(resp.data) >= 3
    /\ ListingOf(resp.data[1]).createdAt > ListingOf(resp.data[2]).createdAt
    /\ ListingOf(resp.data[2]).price.v < ListingOf(resp.data[3]).price.v

\* C25: for a search with page >= 1 and limit >= 1 (1 and 6 when omitted),
\* on a store without writes: the response is 200, the page holds
\* min(limit, max(0, totalCount - offset)) different listings with offset =
\* (page - 1) * limit, and its i-th listing can stand at position offset + i
\* of the sorted result.
C25_PageIsWindow ==
    ( /\ resp.query.kind = "query"
      /\ resp.query.page.kind \in {"int", "absent"}
      /\ resp.query.limit.kind \in {"int", "absent"}
      /\ AskedPage(resp.query) >= 1
      /\ AskedLimit(resp.query) >= 1 ) =>
        LET limit == AskedLimit(resp.query)
            offset == (AskedPage(resp.query) - 1) * limit
            total == Len(requirements)
            rest == IF total > offset THEN total - offset ELSE 0
            key(l) == OrderKey(resp.query.sortBy, l)
        IN  /\ resp.status = 200
            /\ Len(resp.data) = Min(limit, rest)
            /\ Cardinality(SetOf(resp.data)) = Len(resp.data)
            /\ \A i \in 1..Len(resp.data) :
                  LET x == ListingOf(resp.data[i])
                      before == {j \in 1..total : key(requirements[j]) < key(x)}
                      upto == {j \in 1..total : key(requirements[j]) <= key(x)}
                  IN  /\ Cardinality(before) < offset + i
                      /\ offset + i <= Cardinality(upto)

\* C25 witness: a search without page and limit on a store of more than six
\* listings returned six of them.
C25_Witness ==
    /\ resp.status = 200
    /\ resp.query.kind = "query"
    /\ resp.query.limit = NoText
    /\ resp.query.page = NoText
    /\ Len(requirements) > 6
    /\ Len(resp.data) = 6

\* C23: a my-posts request of a logged-in user is answered with exactly the
\* stored listings whose userId is that user, each once, newest first; a
\* create-listing request stores its listing with the user id the session
\* held when the request was made; and no step changes the owner of a stored
\* listing.
C23_MyPostsAreOwnPosts ==
    [][/\ \A s \in Sessions :
             /\ (MyPosts(s) /\ session[s] # NoUser) =>
                   /\ resp'.status = 200
                   /\ Len(resp'.data) = Cardinality(SetOf(resp'.data))
                   /\ SetOf(resp'.data) =
                         {requirements[i]._id :
                            i \in {j \in 1..Len(requirements) :
                                      requirements[j].userId = session[s]}}
                   /\ \A i \in 1..(Len(resp'.data) - 1) :
                         ListingOf(resp'.data[i]).createdAt
                            >= ListingOf(resp'.data[i + 1]).createdAt
             /\ (CreateStart(s, 0, SampleForm(1)) /\ session[s] # NoUser) =>
                   req'[s].userId = session[s]
             /\ (CreateSave(s) /\ Len(requirements') > Len(requirements)) =>
                   requirements'[Len(requirements')].userId = req[s].userId
       /\ \A i \in 1..Len(requirements), j \in 1..Len(requirements') :
             requirements'[j]._id = requirements[i]._id =>
                requirements'[j].userId = requirements[i].userId]_vars

\* C23 witness: a my-posts response lists two listings of its user, the later
\* one first, while a listing of another user is stored.
C23_Witness ==
    /\ resp.status = 200
    /\ resp.query.kind = "mine"
    /\ Len(resp.data) = 2
    /\ \E i, j, k \in 1..Len(requirements) :
          /\ requirements[i]._id = resp.data[1]
          /\ requirements[j]._id = resp.data[2]
          /\ requirements[i].createdAt > requirements[j].createdAt
          /\ requirements[i].userId = resp.query.userId
          /\ requirements[k].userId # resp.query.userId

\* C24: a logout leaves its session without a user; a session without a user
\* gets one only by a login on that session; and while a session has no
\* user, /api/user on it reports loggedIn = false and the first step of
\* every write operation on it answers 401.
C24_LoggedOutUntilLogin ==
    [][\A s \in Sessions :
          /\ Logout(s) => session'[s] = NoUser
          /\ (session[s] = NoUser /\ session'[s] # NoUser) => \E u \in Users : Login(s, u)
          /\ (session[s] = NoUser /\ GetUser(s)) => ~resp'.loggedIn
          /\ (session[s] = NoUser /\ WriteStart(s)) => resp'.status = 401]_vars

\* C26: the senderId and the receiverId of every stored message are the two
\* different participants of the conversation the message belongs to.
C26_MessageBetweenParticipants ==
    \A i \in 1..Len(messages) :
       LET k == ConvIndex(messages[i].conversationId) IN
       /\ k \in 1..Len(conversations)
       /\ messages[i].senderId # messages[i].receiverId
       /\ {messages[i].senderId, messages[i].receiverId}
             = SetOf(conversations[k].participants)

\* C27: a message that turns read does so in the last step of a
\* list-messages call of its receiver, and it is among the messages that
\* call has fetched and returns.
C27_ReadOnlyIfReturned ==
    [][\A i \in 1..Len(messages) :
          (~messages[i].read /\ messages'[i].read) =>
             \E s \in Sessions :
                /\ ListMark(s)
                /\ req[s].userId = messages[i].receiverId
                /\ \E r \in req[s].result : r.m = i]_vars

\* C28: while no send-message request is in flight, every conversation with
\* messages has as lastMessage the first PreviewLen characters of one of its
\* messages of greatest createdAt, and a lastMessageTime not earlier than
\* that createdAt.
C28_SummaryIsLatestMessage ==
    SendsInFlight = {} =>
       \A k \in 1..Len(conversations) :
          LET own == {i \in 1..Len(messages) : messages[i].conversationId = ConvOid(k)} IN
          own # {} =>
             \E i \in own :
                /\ \A j \in own : messages[j].createdAt <= messages[i].createdAt
                /\ conversations[k].lastMessage = Substring(messages[i].message, PreviewLen)
                /\ conversations[k].lastMessageTime >= messages[i].createdAt

\* C29: every 'new-message' a client has received is a stored message; a send
\* request reaches its emit only through its summary update and that only
\* through its save, so at the emit its message is stored and the summary
\* time is not earlier than the message; stored messages stay stored; and
\* the fetch of a list-messages call returns every message of its
\* conversation that any client has received.
C29_BroadcastAfterPersist ==
    [][/\ \A k \in Sockets : \A j \in 1..Len(inbox'[k]) : inbox'[k][j] \in 1..Len(messages')
       /\ Len(messages') >= Len(messages)
       /\ \A s \in Sessions :
             /\ (req'[s].pc = "msg_emit" /\ req[s].pc # "msg_emit") => SendUpdate(s)
             /\ (req'[s].pc = "msg_update" /\ req[s].pc # "msg_update") =>
                   /\ SendSave(s)
                   /\ req'[s].msg = Len(messages')
                   /\ Len(messages') = Len(messages) + 1
             /\ SendEmit(s) =>
                   /\ req[s].msg \in 1..Len(messages)
                   /\ messages[req[s].msg].senderId = req[s].userId
                   /\ messages[req[s].msg].conversationId = CastObjectId(req[s].conv)
                   /\ conversations[ConvIndex(CastObjectId(req[s].conv))].lastMessageTime
                         >= messages[req[s].msg].createdAt
                   /\ \A k \in Sockets :
                         inbox'[k] # inbox[k] => inbox'[k] = Append(inbox[k], req[s].msg)
             /\ ListFind(s) =>
                   \A k \in Sockets : \A j \in 1..Len(inbox[k]) :
                      messages[inbox[k][j]].conversationId = CastObjectId(req[s].conv) =>
                         \E r \in req'[s].result : r.m = inbox[k][j]]_vars

\* C29 witness: a participant who sent a message that a client has received
\* lists the conversation afterwards and is returned that message.
C29_Witness ==
    \E s \in Sessions, k \in Sockets :
       /\ req[s].pc = "list_mark"
       /\ \E j \in 1..Len(inbox[k]) :
             /\ messages[inbox[k][j]].senderId = session[s]
             /\ \E r \in req[s].result : r.m = inbox[k][j]

\* C30: emailVerified turns true only in a verify-otp request of that user
\* that has found a stored OTP record of the user's email with its code;
\* when a verification has completed, no record with its code is stored for
\* that email; and when send-otp has stored its new code, that record is
\* the only one stored for the email.
C30_OnlyCurrentOtpVerifies ==
    [][/\ \A u \in Users :
             (~users[u].emailVerified /\ users'[u].emailVerified) =>
                \E s \in Sessions : VerUpdate(s) /\ req[s].userId = u
       /\ \A s \in Sessions :
             /\ (req'[s].pc = "ver_update" /\ req[s].pc # "ver_update") =>
                   /\ VerFind(s)
                   /\ \E i \in 1..Len(otps) :
                         otps[i].email = req[s].userId /\ otps[i].otp = req[s].otp.v
             /\ VerDelete(s) =>
                   ~\E i \in 1..Len(otps') :
                       otps'[i].email = req[s].userId /\ otps'[i].otp = req[s].otp.v
             /\ OtpSave(s) =>
                   \A i \in 1..Len(otps') :
                      otps'[i].email = req[s].userId => i = Len(otps')]_vars
====
